---- MODULE Spec2Model ----
(***************************************************************************)
(* Model of the generic shunting yard crate: the conversion engine         *)
(* to_postfix (src/src/lib.rs) together with the operator capability       *)
(* (trait Operator) and the MathOperator catalogue (src/src/op.rs).        *)
(*                                                                         *)
(* One conversion is one behaviour: Init picks the infix token sequence,   *)
(* every iteration of the `for (pos, token)` loop is one action (one per   *)
(* match arm), and the loop that drains the pending stack is the last.     *)
(***************************************************************************)
EXTENDS Integers, Sequences, FiniteSets, Bags, TLC

\* the locals of to_postfix
VARIABLES infix, pos, out_queue, stack, paren_count, result
\* the locals of validate, and the build profile it runs under
VARIABLES in_tokens, state, ctx, verdict, debug_assertions

postfix_vars == <<infix, pos, out_queue, stack, paren_count, result>>
validate_vars == <<in_tokens, state, ctx, verdict, debug_assertions>>
vars == <<infix, pos, out_queue, stack, paren_count, result,
          in_tokens, state, ctx, verdict, debug_assertions>>

(***************************************************************************)
(* Bounds of the model.                                                    *)
(***************************************************************************)
MaxLen == 4
NumValues == 2
NumFunctions == 2
MaxPrec == 2
MaxArgLen == 3

(***************************************************************************)
(* Tokens.                                                                 *)
(***************************************************************************)
InValue(v) == [kind |-> "Value", value |-> v]
InLeftParen == [kind |-> "LeftParen"]
InRightParen == [kind |-> "RightParen"]
InFunction(f) == [kind |-> "Function", func |-> f]
InArgSeperator == [kind |-> "ArgSeperator"]
InOperator(o) == [kind |-> "Operator", op |-> o]

StackLeftParen(p) == [kind |-> "LeftParen", pos |-> p]
StackFunction(f) == [kind |-> "Function", func |-> f]
StackOperator(o) == [kind |-> "Operator", op |-> o]

OutValue(v) == [kind |-> "Value", value |-> v]
OutFunction(f) == [kind |-> "Function", func |-> f]
OutOperator(o) == [kind |-> "Operator", op |-> o]

(***************************************************************************)
(* The operator capability: an operator is what a caller's type answers    *)
(* to precedence() and is_left_associative(), with an identity.            *)
(***************************************************************************)
precedence(o) == o.precedence
is_left_associative(o) == o.is_left_associative

MathOperator(id) ==
    [id |-> id,
     precedence |-> CASE id \in {"Add", "Sub"} -> 11
                      [] id \in {"Mul", "Div"} -> 12
                      [] id = "Exponent" -> 13,
     is_left_associative |-> id # "Exponent"]

Values == 1..NumValues
Functions == 1..NumFunctions
Operators == [id : {"O"}, precedence : 1..MaxPrec, is_left_associative : BOOLEAN]

InputTokens ==
    {InValue(v) : v \in Values} \cup {InLeftParen, InRightParen, InArgSeperator}
    \cup {InFunction(f) : f \in Functions} \cup {InOperator(o) : o \in Operators}

(***************************************************************************)
(* Results of to_postfix.                                                  *)
(***************************************************************************)
Running == [kind |-> "Running"]
Ok(out) == [kind |-> "Ok", out |-> out]
ParenMissmatchError(p) == [kind |-> "Err", pos |-> p]

Last(s) == s[Len(s)]
Front(s) == SubSeq(s, 1, Len(s) - 1)

(***************************************************************************)
(* The loop state as a record, and the match arms as functions on it.      *)
(***************************************************************************)
NewState == [out_queue |-> <<>>, stack |-> <<>>, paren_count |-> 0, result |-> Running]

RECURSIVE PopOperators(_, _)
\* while let Some(StackToken::Operator(_)) = stack.last() { out_queue.push(stack.pop()) }
PopOperators(stk, out) ==
    IF stk # <<>> /\ Last(stk).kind = "Operator"
    THEN PopOperators(Front(stk), Append(out, OutOperator(Last(stk).op)))
    ELSE [stack |-> stk, out_queue |-> out]

\* ShouldPop with the precedence comparison turned around
ShouldPop_Reversed(o2, o1) ==
    \/ precedence(o2) < precedence(o1)
    \/ (precedence(o1) = precedence(o2) /\ is_left_associative(o1))

\* ShouldPop without the associativity test: equal precedence always pops
ShouldPop_GreaterOrEqual(o2, o1) ==
    precedence(o2) >= precedence(o1)

\* ShouldPop asking the stacked operator, not the incoming one, for its associativity
ShouldPop_StackedAssoc(o2, o1) ==
    \/ precedence(o2) > precedence(o1)
    \/ (precedence(o1) = precedence(o2) /\ is_left_associative(o2))

\* the condition under which the stacked operator o2 is popped before o1 is pushed
ShouldPop(o2, o1) ==
    \/ precedence(o2) > precedence(o1)
    \/ (precedence(o1) = precedence(o2) /\ is_left_associative(o1))

RECURSIVE PopPreceding(_, _, _)
PopPreceding(stk, out, o1) ==
    IF stk # <<>> /\ Last(stk).kind = "Operator" /\ ShouldPop(Last(stk).op, o1)
    THEN PopPreceding(Front(stk), Append(out, OutOperator(Last(stk).op)), o1)
    ELSE [stack |-> stk, out_queue |-> out]

\* ValueArm putting the value at the front of the output
ValueArm_Prepends(st, value) ==
    [st EXCEPT !.out_queue = <<OutValue(value)>> \o @]

ValueArm(st, value) ==
    [st EXCEPT !.out_queue = Append(@, OutValue(value))]

LeftParenArm(st, p) ==
    [st EXCEPT !.paren_count = @ + 1, !.stack = Append(@, StackLeftParen(p))]

\* stack.pop() on a Vec: removes the last entry, whatever it is; no-op when empty
Pop(stk) == IF stk = <<>> THEN <<>> ELSE Front(stk)

\* RightParenArm without the `if paren_count == 0` arm
RightParenArm_Unchecked(st, p) ==
    LET flushed == PopOperators(st.stack, st.out_queue)
        popped == Pop(flushed.stack)
    IN IF popped # <<>> /\ Last(popped).kind = "Function"
       THEN [st EXCEPT !.paren_count = @ - 1,
                       !.stack = Front(popped),
                       !.out_queue = Append(flushed.out_queue, OutFunction(Last(popped).func))]
       ELSE [st EXCEPT !.paren_count = @ - 1,
                       !.stack = popped,
                       !.out_queue = flushed.out_queue]

RightParenArm(st, p) ==
    IF st.paren_count = 0
    THEN [st EXCEPT !.result = ParenMissmatchError(p)]
    ELSE LET flushed == PopOperators(st.stack, st.out_queue)
             popped == Pop(flushed.stack)
         IN IF popped # <<>> /\ Last(popped).kind = "Function"
            THEN [st EXCEPT !.paren_count = @ - 1,
                            !.stack = Front(popped),
                            !.out_queue = Append(flushed.out_queue, OutFunction(Last(popped).func))]
            ELSE [st EXCEPT !.paren_count = @ - 1,
                            !.stack = popped,
                            !.out_queue = flushed.out_queue]

FunctionArm(st, func) ==
    [st EXCEPT !.stack = Append(@, StackFunction(func))]

\* ArgSeperatorArm that also emits a pending Function left on top
ArgSeperatorArm_PopsFunction(st) ==
    LET flushed == PopOperators(st.stack, st.out_queue)
    IN IF flushed.stack # <<>> /\ Last(flushed.stack).kind = "Function"
       THEN [st EXCEPT !.stack = Front(flushed.stack),
                       !.out_queue = Append(flushed.out_queue,
                                            OutFunction(Last(flushed.stack).func))]
       ELSE [st EXCEPT !.stack = flushed.stack, !.out_queue = flushed.out_queue]

ArgSeperatorArm(st) ==
    LET flushed == PopOperators(st.stack, st.out_queue)
    IN [st EXCEPT !.stack = flushed.stack, !.out_queue = flushed.out_queue]

\* OperatorArm pushing the incoming operator twice
OperatorArm_PushesTwice(st, o1) ==
    LET flushed == PopPreceding(st.stack, st.out_queue, o1)
    IN [st EXCEPT !.stack = flushed.stack \o <<StackOperator(o1), StackOperator(o1)>>,
                  !.out_queue = flushed.out_queue]

OperatorArm(st, o1) ==
    LET flushed == PopPreceding(st.stack, st.out_queue, o1)
    IN [st EXCEPT !.stack = Append(flushed.stack, StackOperator(o1)),
                  !.out_queue = flushed.out_queue]

RECURSIVE Drain_NoRev(_, _)
\* Drain walking the stack bottom-up (`.rev()` forgotten)
Drain_NoRev(stk, out) ==
    IF stk = <<>> THEN Ok(out)
    ELSE IF Head(stk).kind = "LeftParen" THEN ParenMissmatchError(Head(stk).pos)
    ELSE IF Head(stk).kind = "Function"
         THEN Drain_NoRev(Tail(stk), Append(out, OutFunction(Head(stk).func)))
         ELSE Drain_NoRev(Tail(stk), Append(out, OutOperator(Head(stk).op)))

RECURSIVE Drain(_, _)
\* for token in stack.into_iter().rev() { ... }  Ok(out_queue)
Drain(stk, out) ==
    IF stk = <<>> THEN Ok(out)
    ELSE IF Last(stk).kind = "LeftParen" THEN ParenMissmatchError(Last(stk).pos)
    ELSE IF Last(stk).kind = "Function"
         THEN Drain(Front(stk), Append(out, OutFunction(Last(stk).func)))
         ELSE Drain(Front(stk), Append(out, OutOperator(Last(stk).op)))

MatchToken(st, p, token) ==
    CASE token.kind = "Value" -> ValueArm(st, token.value)
      [] token.kind = "LeftParen" -> LeftParenArm(st, p)
      [] token.kind = "RightParen" -> RightParenArm(st, p)
      [] token.kind = "Function" -> FunctionArm(st, token.func)
      [] token.kind = "ArgSeperator" -> ArgSeperatorArm(st)
      [] token.kind = "Operator" -> OperatorArm(st, token.op)

RECURSIVE ForLoop(_, _, _)
ForLoop(st, tokens, p) ==
    IF st.result # Running THEN st.result
    ELSE IF p = Len(tokens) THEN Drain(st.stack, st.out_queue)
    ELSE ForLoop(MatchToken(st, p, tokens[p + 1]), tokens, p + 1)

\* to_postfix as a function of its input
to_postfix(tokens) == ForLoop(NewState, tokens, 0)

(***************************************************************************)
(* Inputs of the model: every token sequence up to MaxLen, and the longer  *)
(* shapes the crate's tests and documentation exercise.                    *)
(***************************************************************************)
SeqsUpTo(S, n) == UNION {[1..k -> S] : k \in 0..n}

AllInputs == SeqsUpTo(InputTokens, MaxLen)

\* a o1 b o2 c
FlatInputs ==
    {<<InValue(a), InOperator(o1), InValue(b), InOperator(o2), InValue(c)>> :
        a \in Values, b \in Values, c \in Values, o1 \in Operators, o2 \in Operators}

\* the tests precedence_0, precedence_1 and a ^ b ^ c over MathOperator
MathFlatInputs ==
    {<<InValue(1), InOperator(MathOperator(m1)), InValue(2), InOperator(MathOperator(m2)), InValue(3)>> :
        m1 \in {"Add", "Mul", "Exponent"}, m2 \in {"Add", "Mul", "Exponent"}}

ArgTokens ==
    {InValue(v) : v \in Values} \cup {InArgSeperator} \cup {InOperator(o) : o \in Operators}

\* f e, with e free of parentheses and functions
BareCall(f, e) == <<InFunction(f)>> \o e
\* f ( e )
ParenCall(f, e) == <<InFunction(f), InLeftParen>> \o e \o <<InRightParen>>

BareCallInputs == {BareCall(f, e) : f \in Functions, e \in SeqsUpTo(ArgTokens, MaxArgLen)}
ParenCallInputs == {ParenCall(f, e) : f \in Functions, e \in SeqsUpTo(ArgTokens, MaxArgLen)}

\* f a , b o c        (tests::function_call_without_paren_multi_arg*)
BareCallOp(f, a, b, o, c) ==
    <<InFunction(f), InValue(a), InArgSeperator, InValue(b), InOperator(o), InValue(c)>>
\* f ( a , b o c )
ParenCallAll(f, a, b, o, c) ==
    <<InFunction(f), InLeftParen, InValue(a), InArgSeperator, InValue(b), InOperator(o),
      InValue(c), InRightParen>>
\* f ( a , b ) o c
ParenCallOp(f, a, b, o, c) ==
    <<InFunction(f), InLeftParen, InValue(a), InArgSeperator, InValue(b), InRightParen,
      InOperator(o), InValue(c)>>

TrailingOpInputs ==
    UNION {{BareCallOp(f, a, b, o, c), ParenCallAll(f, a, b, o, c), ParenCallOp(f, a, b, o, c)} :
        f \in Functions, a \in Values, b \in Values, o \in Operators, c \in Values}

\* sin ( max ( 2 , 3 ) / 3 * 4 )        (tests::wikipedia_example)
WikipediaExample(sin, max) ==
    <<InFunction(sin), InLeftParen, InFunction(max), InLeftParen, InValue(2), InArgSeperator,
      InValue(3), InRightParen, InOperator(MathOperator("Div")), InValue(3),
      InOperator(MathOperator("Mul")), InValue(4), InRightParen>>

\* 5 + 2 * sin ( 123 )                  (the doc example of to_postfix)
DocExample(sin) ==
    <<InValue(5), InOperator(MathOperator("Add")), InValue(2), InOperator(MathOperator("Mul")),
      InFunction(sin), InLeftParen, InValue(123), InRightParen>>

ExampleInputs ==
    {WikipediaExample(f, g) : f \in Functions, g \in Functions}
    \cup {DocExample(f) : f \in Functions}

Inputs ==
    AllInputs \cup FlatInputs \cup MathFlatInputs \cup BareCallInputs \cup ParenCallInputs
    \cup TrailingOpInputs \cup ExampleInputs

(***************************************************************************)
(* validate (src/src/validate.rs): the bookkeeping of the parentheses.     *)
(* A usize counter holds its value modulo 2^64; the model keeps the        *)
(* representative of least magnitude, so usize::MAX reads -1, wrapping     *)
(* arithmetic is plain arithmetic and the tests `== 0`, `== 1` are exact.  *)
(***************************************************************************)
\* ValidationContext::new()
ValidationContext ==
    [function_level |-> 0, paren_count |-> 0, function_local_paren_count |-> <<0>>]

\* impl From<&InputToken<V, F, O>> for Token
Token(in_token) ==
    CASE in_token.kind = "Value" -> "Value"
      [] in_token.kind = "LeftParen" -> "LeftParen"
      [] in_token.kind = "RightParen" -> "RightParen"
      [] in_token.kind = "Function" -> "Function"
      [] in_token.kind = "ArgSeperator" -> "ArgSeperator"
      [] in_token.kind = "Operator" -> "Operator"

\* what validate ends in: a return value, a panic, or the process dying of
\* undefined behaviour
OkUnit == [kind |-> "Ok"]
\* InvalidTokenError counting positions from one
InvalidTokenError_OneBased(found, expected, p) ==
    [kind |-> "InvalidToken", found |-> found, expected |-> expected, pos |-> p + 1]

InvalidTokenError(found, expected, p) ==
    [kind |-> "InvalidToken", found |-> found, expected |-> expected, pos |-> p]
ParenMissMatch(count) == [kind |-> "ParenMissMatch", count |-> count]
Panicked == [kind |-> "Panic"]
Aborted == [kind |-> "Abort"]

\* the outcomes of a method of ValidationContext
Returns(c) == [fault |-> "none", ctx |-> c]
Panics(c) == [fault |-> "Panic", ctx |-> c]
Aborts(c) == [fault |-> "Abort", ctx |-> c]

\* last_mut().unwrap_unchecked() on an empty Vec is undefined behaviour: the
\* build either dies or goes on with a slot outside the Vec, which stays empty
Undefined(c) == {Aborts(c), Returns(c)}

enter_fn_args(c) ==
    [c EXCEPT !.function_level = @ + 1,
              !.paren_count = @ + 1,
              !.function_local_paren_count = Append(@, 1)]

left_paren(c, dbg) ==
    LET counted == [c EXCEPT !.paren_count = @ + 1]
        n == Len(c.function_local_paren_count)
    IN IF n = 0
       THEN (IF dbg THEN {Panics(counted)} ELSE Undefined(counted))
       ELSE {Returns([counted EXCEPT !.function_local_paren_count[n] = @ + 1])}

right_paren(c, dbg) ==
    LET counted == [c EXCEPT !.paren_count = @ - 1]
        n == Len(c.function_local_paren_count)
    IN IF n = 0
       THEN (IF dbg THEN {Panics(counted)} ELSE Undefined(counted))
       ELSE IF dbg /\ c.function_local_paren_count[n] = 0
       THEN {Panics(counted)}      \* attempt to subtract with overflow
       ELSE IF c.function_local_paren_count[n] - 1 = 0
       THEN {Returns([counted EXCEPT !.function_local_paren_count = Front(@)])}
       ELSE {Returns([counted EXCEPT !.function_local_paren_count[n] = @ - 1])}

\* the set of [fault, allow]: on an empty Vec the value read is arbitrary
allow_end_of_fn_arg(c) ==
    IF c.function_local_paren_count = <<>>
    THEN {[fault |-> "Abort", allow |-> FALSE]}
         \cup {[fault |-> "none", allow |-> c.function_level > 0 /\ fn_local_count = 1] :
                  fn_local_count \in {0, 1}}
    ELSE {[fault |-> "none",
           allow |-> c.function_level > 0 /\ Last(c.function_local_paren_count) = 1]}

(***************************************************************************)
(* The validation states (new_val_state!): each maps a token and the       *)
(* context to the set of its outcomes.                                     *)
(***************************************************************************)
\* Expected leaving out the arms that carry a guard
Expected_Unguarded(s) ==
    CASE s = "Expression" -> <<"Value", "LeftParen", "Function">>
      [] s = "AfterValue" -> <<"Operator", "RightParen">>
      [] s = "FunctionArgsStart" -> <<"LeftParen">>

\* Err(&[$($pat,)*]): the patterns of the state's arms, guards left out
Expected(s) ==
    CASE s = "Expression" -> <<"Value", "LeftParen", "Function">>
      [] s = "AfterValue" -> <<"Operator", "RightParen", "ArgSeperator">>
      [] s = "FunctionArgsStart" -> <<"LeftParen">>

NextState(s, c) == [kind |-> "Ok", state |-> s, ctx |-> c, expected |-> <<>>]
Rejected(s, c) == [kind |-> "Err", state |-> s, ctx |-> c, expected |-> Expected(s)]
Faulted(s, o) == [kind |-> o.fault, state |-> s, ctx |-> o.ctx, expected |-> <<>>]

Expression(tk, c, dbg) ==
    CASE tk = "Value" -> {NextState("AfterValue", c)}
      [] tk = "LeftParen" ->
            {IF o.fault = "none" THEN NextState("Expression", o.ctx)
                                 ELSE Faulted("Expression", o) : o \in left_paren(c, dbg)}
      [] tk = "Function" -> {NextState("FunctionArgsStart", c)}
      [] OTHER -> {Rejected("Expression", c)}

AfterValue(tk, c, dbg) ==
    CASE tk = "Operator" -> {NextState("Expression", c)}
      [] tk = "RightParen" ->
            {IF o.fault = "none" THEN NextState("AfterValue", o.ctx)
                                 ELSE Faulted("AfterValue", o) : o \in right_paren(c, dbg)}
      [] tk = "ArgSeperator" ->
            {IF o.fault # "none" THEN Faulted("AfterValue", [fault |-> o.fault, ctx |-> c])
             ELSE IF o.allow THEN NextState("Expression", c)
             ELSE Rejected("AfterValue", c) : o \in allow_end_of_fn_arg(c)}
      [] OTHER -> {Rejected("AfterValue", c)}

FunctionArgsStart(tk, c, dbg) ==
    CASE tk = "LeftParen" -> {NextState("Expression", enter_fn_args(c))}
      [] OTHER -> {Rejected("FunctionArgsStart", c)}

\* state.validate(token, &mut ctx)
ValidationState(s, tk, c, dbg) ==
    CASE s = "Expression" -> Expression(tk, c, dbg)
      [] s = "AfterValue" -> AfterValue(tk, c, dbg)
      [] s = "FunctionArgsStart" -> FunctionArgsStart(tk, c, dbg)

(***************************************************************************)
(* validate: the loop over the tokens and the final check.                 *)
(***************************************************************************)
NewRun == [state |-> "Expression", ctx |-> ValidationContext, verdict |-> Running]

\* one iteration of `for (pos, in_token) in tokens.enumerate()`
ValidateToken(run, p, in_token, dbg) ==
    {[state |-> IF o.kind = "Ok" THEN o.state ELSE run.state,
      ctx |-> o.ctx,
      verdict |-> CASE o.kind = "Ok" -> Running
                    [] o.kind = "Err" -> InvalidTokenError(in_token, o.expected, p)
                    [] o.kind = "Panic" -> Panicked
                    [] o.kind = "Abort" -> Aborted] :
        o \in ValidationState(run.state, Token(in_token), run.ctx, dbg)}

\* EndOfInput reporting only LeftParens left open
EndOfInput_PositiveOnly(c) ==
    IF c.paren_count > 0 THEN ParenMissMatch(c.paren_count) ELSE OkUnit

\* if ctx.paren_count != 0 { return Err(Error::ParenMissMatch(..)) }  Ok(())
EndOfInput(c) ==
    IF c.paren_count # 0 THEN ParenMissMatch(c.paren_count) ELSE OkUnit

RECURSIVE ValidateLoop(_, _, _, _)
\* the runs of the loop over toks from position p on
ValidateLoop(run, toks, p, dbg) ==
    IF run.verdict # Running \/ p = Len(toks) THEN {run}
    ELSE UNION {ValidateLoop(r, toks, p + 1, dbg) : r \in ValidateToken(run, p, toks[p + 1], dbg)}

\* validate as a function of its input: the set of its possible outcomes
validate(toks, dbg) ==
    {IF r.verdict = Running THEN EndOfInput(r.ctx) ELSE r.verdict :
        r \in ValidateLoop(NewRun, toks, 0, dbg)}

(***************************************************************************)
(* The state machine of to_postfix.                                        *)
(***************************************************************************)
cur == [out_queue |-> out_queue, stack |-> stack, paren_count |-> paren_count, result |-> result]

Commit(st) ==
    /\ out_queue' = st.out_queue
    /\ stack' = st.stack
    /\ paren_count' = st.paren_count
    /\ result' = st.result

InLoop == result = Running /\ pos < Len(infix)
token == infix[pos + 1]

Init ==
    /\ infix \in Inputs
    /\ pos = 0
    /\ out_queue = <<>>
    /\ stack = <<>>
    /\ paren_count = 0
    /\ result = Running
    /\ in_tokens = <<>>
    /\ state = "Expression"
    /\ ctx = ValidationContext
    /\ verdict = Running
    /\ debug_assertions = FALSE

StepValue ==
    /\ InLoop /\ token.kind = "Value"
    /\ Commit(ValueArm(cur, token.value))
    /\ pos' = pos + 1
    /\ UNCHANGED <<infix, validate_vars>>

StepLeftParen ==
    /\ InLoop /\ token.kind = "LeftParen"
    /\ Commit(LeftParenArm(cur, pos))
    /\ pos' = pos + 1
    /\ UNCHANGED <<infix, validate_vars>>

\* InputToken::RightParen if paren_count == 0 => return Err(..)
StepRightParenUnmatched ==
    /\ InLoop /\ token.kind = "RightParen" /\ paren_count = 0
    /\ Commit(RightParenArm(cur, pos))
    /\ UNCHANGED <<infix, pos, validate_vars>>

StepRightParen ==
    /\ InLoop /\ token.kind = "RightParen" /\ paren_count # 0
    /\ Commit(RightParenArm(cur, pos))
    /\ pos' = pos + 1
    /\ UNCHANGED <<infix, validate_vars>>

StepFunction ==
    /\ InLoop /\ token.kind = "Function"
    /\ Commit(FunctionArm(cur, token.func))
    /\ pos' = pos + 1
    /\ UNCHANGED <<infix, validate_vars>>

StepArgSeperator ==
    /\ InLoop /\ token.kind = "ArgSeperator"
    /\ Commit(ArgSeperatorArm(cur))
    /\ pos' = pos + 1
    /\ UNCHANGED <<infix, validate_vars>>

StepOperator ==
    /\ InLoop /\ token.kind = "Operator"
    /\ Commit(OperatorArm(cur, token.op))
    /\ pos' = pos + 1
    /\ UNCHANGED <<infix, validate_vars>>

\* end of input: drain the pending stack and return
Finish ==
    /\ result = Running /\ pos = Len(infix)
    /\ result' = Drain(stack, out_queue)
    /\ out_queue' = IF result'.kind = "Ok" THEN result'.out ELSE out_queue
    /\ stack' = <<>>
    /\ UNCHANGED <<infix, pos, paren_count, validate_vars>>

Next ==
    \/ StepValue
    \/ StepLeftParen
    \/ StepRightParenUnmatched
    \/ StepRightParen
    \/ StepFunction
    \/ StepArgSeperator
    \/ StepOperator
    \/ Finish

Spec == Init /\ [][Next]_vars

Done == result # Running

(***************************************************************************)
(* The state machine of validate: each action pulls the next token from    *)
(* the iterator and hands it to the current state; ReturnAtEnd is the      *)
(* iterator running out.                                                   *)
(***************************************************************************)
MaxTokens == 8

ValidateTokens ==
    {InValue(1), InValue(2), InLeftParen, InRightParen, InFunction(1), InArgSeperator,
     InOperator(MathOperator("Add"))}

InitV ==
    /\ infix = <<>>
    /\ pos = 0
    /\ out_queue = <<>>
    /\ stack = <<>>
    /\ paren_count = 0
    /\ result = Running
    /\ in_tokens = <<>>
    /\ state = "Expression"
    /\ ctx = ValidationContext
    /\ verdict = Running
    /\ debug_assertions \in BOOLEAN

run == [state |-> state, ctx |-> ctx, verdict |-> verdict]

\* the loop body: the iterator yields in_token, and state.validate(token, &mut ctx)
\* gives the next state or, through `?`, the error validate returns
PullToken ==
    /\ Len(in_tokens) < MaxTokens
    /\ \E in_token \in ValidateTokens :
        \E r \in ValidateToken(run, Len(in_tokens), in_token, debug_assertions) :
            /\ in_tokens' = Append(in_tokens, in_token)
            /\ state' = r.state
            /\ ctx' = r.ctx
            /\ verdict' = r.verdict

InExpression ==
    /\ verdict = Running /\ state = "Expression"
    /\ PullToken
    /\ UNCHANGED <<debug_assertions, postfix_vars>>

InAfterValue ==
    /\ verdict = Running /\ state = "AfterValue"
    /\ PullToken
    /\ UNCHANGED <<debug_assertions, postfix_vars>>

InFunctionArgsStart ==
    /\ verdict = Running /\ state = "FunctionArgsStart"
    /\ PullToken
    /\ UNCHANGED <<debug_assertions, postfix_vars>>

ReturnAtEnd ==
    /\ verdict = Running
    /\ verdict' = EndOfInput(ctx)
    /\ UNCHANGED <<in_tokens, state, ctx, debug_assertions, postfix_vars>>

NextV ==
    \/ InExpression
    \/ InAfterValue
    \/ InFunctionArgsStart
    \/ ReturnAtEnd

SpecV == InitV /\ [][NextV]_vars

\* validate has returned
Returned == verdict.kind \in {"Ok", "InvalidToken", "ParenMissMatch"}
\* validate has consumed the whole input and returned
AtEnd == verdict.kind \in {"Ok", "ParenMissMatch"}

TypeOKV ==
    /\ state \in {"Expression", "AfterValue", "FunctionArgsStart"}
    /\ verdict.kind \in {"Running", "Ok", "InvalidToken", "ParenMissMatch", "Panic", "Abort"}
    /\ ctx.function_level \in Nat
    /\ Len(in_tokens) <= MaxTokens

TypeOK ==
    /\ pos \in 0..Len(infix)
    /\ paren_count \in Nat
    /\ result.kind \in {"Running", "Ok", "Err"}

(***************************************************************************)
(* Properties of the input, stated on the token sequence alone.            *)
(***************************************************************************)
KindCount(tokens, kind, k) == Cardinality({i \in 1..k : tokens[i].kind = kind})

\* LeftParens minus RightParens among the first k tokens
Depth(tokens, k) == KindCount(tokens, "LeftParen", k) - KindCount(tokens, "RightParen", k)

\* no RightParen without an earlier still-open LeftParen
NoUnmatchedRightParen(tokens) == \A k \in 1..Len(tokens) : Depth(tokens, k) >= 0

\* balanced parentheses
NoParenErrors(tokens) == NoUnmatchedRightParen(tokens) /\ Depth(tokens, Len(tokens)) = 0

\* zero-based index of the RightParen that is read while LeftParens seen = RightParens seen
UnmatchedRightParenAt(tokens, p) ==
    /\ p < Len(tokens)
    /\ tokens[p + 1].kind = "RightParen"
    /\ Depth(tokens, p) = 0

FirstUnmatchedRightParen(tokens) ==
    {p \in 0..(Len(tokens) - 1) :
        UnmatchedRightParenAt(tokens, p) /\ \A q \in 0..(p - 1) : ~UnmatchedRightParenAt(tokens, q)}

RECURSIVE OpenParens(_, _)
\* zero-based positions of the LeftParens among the first k tokens that no RightParen
\* among them closes (a RightParen closes the nearest open LeftParen)
OpenParens(tokens, k) ==
    IF k = 0 THEN <<>>
    ELSE LET open == OpenParens(tokens, k - 1)
         IN CASE tokens[k].kind = "LeftParen" -> Append(open, k - 1)
              [] tokens[k].kind = "RightParen" /\ open # <<>> -> Front(open)
              [] OTHER -> open

\* the input's Value, Function and Operator tokens, as output tokens, in input order
RECURSIVE NonDelimiters(_)
NonDelimiters(tokens) ==
    IF tokens = <<>> THEN <<>>
    ELSE LET t == Head(tokens)
         IN (CASE t.kind = "Value" -> <<OutValue(t.value)>>
               [] t.kind = "Function" -> <<OutFunction(t.func)>>
               [] t.kind = "Operator" -> <<OutOperator(t.op)>>
               [] OTHER -> <<>>) \o NonDelimiters(Tail(tokens))

Occurrences(s, x) == Cardinality({i \in 1..Len(s) : s[i] = x})
Range(s) == {s[i] : i \in 1..Len(s)}

IsPermutation(s, t) ==
    /\ Len(s) = Len(t)
    /\ \A x \in Range(s) \cup Range(t) : Occurrences(s, x) = Occurrences(t, x)

OutputKinds == {"Value", "Function", "Operator"}

(***************************************************************************)
(* C1  Conservation: for an input whose parentheses are balanced, the      *)
(* conversion yields an output that is a permutation of the input's        *)
(* Value, Function and Operator tokens and holds nothing else.             *)
(***************************************************************************)
C1_Conservation ==
    (Done /\ NoParenErrors(infix)) =>
        /\ result.kind = "Ok"
        /\ IsPermutation(result.out, NonDelimiters(infix))
        /\ \A i \in 1..Len(result.out) : result.out[i].kind \in OutputKinds

(***************************************************************************)
(* C2  to_postfix returns ParenMissmatchError if and only if the input's   *)
(* parentheses are unbalanced; every other input is converted (Ok).        *)
(***************************************************************************)
C2_ErrorIffUnbalanced ==
    Done => (result.kind = "Err" <=> ~NoParenErrors(infix))

(***************************************************************************)
(* C3  Unmatched closing parenthesis: at the first RightParen read while   *)
(* as many RightParens as LeftParens have been seen, the conversion stops  *)
(* with ParenMissmatchError at that index; no later token is consumed.     *)
(***************************************************************************)
C3_UnmatchedRightParen ==
    \A p \in FirstUnmatchedRightParen(infix) :
        /\ pos <= p
        /\ (pos = p => paren_count = 0)
        /\ (Done => result = ParenMissmatchError(p))

C3_Witness ==
    /\ Done
    /\ \E p \in FirstUnmatchedRightParen(infix) :
        /\ p > 0
        /\ p + 1 < Len(infix)
        /\ KindCount(infix, "LeftParen", p) > 0
        /\ result = ParenMissmatchError(p)

(***************************************************************************)
(* C4  Unmatched opening parenthesis: when no RightParen is unmatched and  *)
(* some LeftParen is never closed, the error position is the index of the  *)
(* last LeftParen that has no matching RightParen.                         *)
(***************************************************************************)
C4_UnmatchedLeftParen ==
    (Done /\ NoUnmatchedRightParen(infix) /\ Depth(infix, Len(infix)) > 0) =>
        result = ParenMissmatchError(Last(OpenParens(infix, Len(infix))))

(***************************************************************************)
(* Flat inputs a o1 b o2 c.                                                *)
(***************************************************************************)
IsFlat(tokens) ==
    /\ Len(tokens) = 5
    /\ \A i \in {1, 3, 5} : tokens[i].kind = "Value"
    /\ \A i \in {2, 4} : tokens[i].kind = "Operator"

\* [a, b, o1, c, o2]
LeftGrouped(tokens) ==
    <<OutValue(tokens[1].value), OutValue(tokens[3].value), OutOperator(tokens[2].op),
      OutValue(tokens[5].value), OutOperator(tokens[4].op)>>

\* [a, b, c, o2, o1]
RightGrouped(tokens) ==
    <<OutValue(tokens[1].value), OutValue(tokens[3].value), OutValue(tokens[5].value),
      OutOperator(tokens[4].op), OutOperator(tokens[2].op)>>

(***************************************************************************)
(* C5  Precedence ordering: for a o1 b o2 c the output is [a,b,o1,c,o2]    *)
(* when precedence(o1) > precedence(o2) and [a,b,c,o2,o1] when             *)
(* precedence(o1) < precedence(o2), whatever the associativities.          *)
(***************************************************************************)
C5_PrecedenceOrdering ==
    (Done /\ IsFlat(infix)) =>
        /\ (precedence(infix[2].op) > precedence(infix[4].op)
                => result = Ok(LeftGrouped(infix)))
        /\ (precedence(infix[2].op) < precedence(infix[4].op)
                => result = Ok(RightGrouped(infix)))

C5_Witness ==
    /\ Done /\ IsFlat(infix)
    /\ precedence(infix[2].op) < precedence(infix[4].op)
    /\ is_left_associative(infix[4].op) /\ is_left_associative(infix[2].op)
    /\ infix[1].value # infix[3].value
    /\ result = Ok(RightGrouped(infix))

(***************************************************************************)
(* C6  Right-associativity: an incoming right-associative operator never   *)
(* pops a stacked operator of the same precedence, so a ^ b ^ c becomes    *)
(* [a, b, c, ^, ^].                                                        *)
(***************************************************************************)
RightAssocOnEqual ==
    /\ InLoop /\ token.kind = "Operator"
    /\ stack # <<>> /\ Last(stack).kind = "Operator"
    /\ ~is_left_associative(token.op)
    /\ precedence(Last(stack).op) = precedence(token.op)

C6_RightAssociativity ==
    /\ [][RightAssocOnEqual =>
            (stack' = Append(stack, StackOperator(token.op)) /\ out_queue' = out_queue)]_vars
    /\ [](\A tokens \in {infix} :
            (Done /\ IsFlat(tokens) /\ tokens[2].op = tokens[4].op
                /\ ~is_left_associative(tokens[2].op))
            => result = Ok(RightGrouped(tokens)))

C6_Witness ==
    /\ Done /\ IsFlat(infix)
    /\ infix[2].op = MathOperator("Exponent") /\ infix[4].op = MathOperator("Exponent")
    /\ result = Ok(<<OutValue(1), OutValue(2), OutValue(3),
                     OutOperator(MathOperator("Exponent")), OutOperator(MathOperator("Exponent"))>>)

(***************************************************************************)
(* C7  Tie-breaking: for a o1 b o2 c with equal precedences the output is  *)
(* [a,b,o1,c,o2] exactly when the incoming o2 is left-associative and      *)
(* [a,b,c,o2,o1] otherwise; the associativity of o1 plays no role.         *)
(***************************************************************************)
C7_TieBreaking ==
    (Done /\ IsFlat(infix) /\ precedence(infix[2].op) = precedence(infix[4].op)) =>
        result = IF is_left_associative(infix[4].op)
                 THEN Ok(LeftGrouped(infix))
                 ELSE Ok(RightGrouped(infix))

C7_Witness ==
    /\ Done /\ IsFlat(infix)
    /\ precedence(infix[2].op) = precedence(infix[4].op)
    /\ ~is_left_associative(infix[2].op) /\ is_left_associative(infix[4].op)
    /\ result = Ok(LeftGrouped(infix))

(***************************************************************************)
(* Function calls.                                                         *)
(***************************************************************************)
Kinds(tokens) == [i \in 1..Len(tokens) |-> tokens[i].kind]

\* tokens[i] is a Function directly followed by a LeftParen that tokens[j] closes
\* (i, j one-based)
ClosesCall(tokens, i, j) ==
    /\ tokens[i].kind = "Function"
    /\ tokens[i + 1].kind = "LeftParen"
    /\ tokens[j].kind = "RightParen"
    /\ Depth(tokens, j) = Depth(tokens, i)
    /\ \A k \in (i + 1)..(j - 1) : Depth(tokens, k) > Depth(tokens, i)

(***************************************************************************)
(* C8  Function attachment: a Function directly followed by a balanced     *)
(* parenthesized argument list is emitted by the step that reads the       *)
(* closing RightParen (after the pending operators of its arguments);      *)
(* sin ( max ( 2 , 3 ) / 3 * 4 ) becomes [2,3,max,3,Div,4,Mul,sin] and     *)
(* 5 + 2 * sin ( 123 ) becomes [5,2,123,sin,Mul,Add].                      *)
(***************************************************************************)
EmitsFunctionLast(f) ==
    /\ Len(out_queue') > Len(out_queue)
    /\ SubSeq(out_queue', 1, Len(out_queue)) = out_queue
    /\ \A k \in (Len(out_queue) + 1)..(Len(out_queue') - 1) : out_queue'[k].kind = "Operator"
    /\ Last(out_queue') = OutFunction(f)

C8_FunctionAttachment ==
    /\ [][\A i \in 1..Len(infix) : \A j \in (i + 2)..Len(infix) :
            (result = Running /\ pos = j - 1 /\ ClosesCall(infix, i, j))
                => (pos' = j /\ EmitsFunctionLast(infix[i].func))]_vars
    /\ [](\A f \in Functions : \A g \in Functions :
            /\ (Done /\ infix = WikipediaExample(f, g)) =>
                    result = Ok(<<OutValue(2), OutValue(3), OutFunction(g), OutValue(3),
                                  OutOperator(MathOperator("Div")), OutValue(4),
                                  OutOperator(MathOperator("Mul")), OutFunction(f)>>)
            /\ (Done /\ infix = DocExample(f)) =>
                    result = Ok(<<OutValue(5), OutValue(2), OutValue(123), OutFunction(f),
                                  OutOperator(MathOperator("Mul")),
                                  OutOperator(MathOperator("Add"))>>))

(***************************************************************************)
(* C9  Bare call equivalence: for a function f and a sequence e of Values, *)
(* Operators and ArgSeperators, converting f e and converting f ( e )      *)
(* give the same result.                                                   *)
(***************************************************************************)
IsArgs(e) == \A i \in 1..Len(e) : e[i].kind \in {"Value", "Operator", "ArgSeperator"}

IsBareCall(tokens) ==
    /\ Len(tokens) >= 1
    /\ tokens[1].kind = "Function"
    /\ IsArgs(Tail(tokens))

IsParenCall(tokens) ==
    /\ Len(tokens) >= 3
    /\ tokens[1].kind = "Function"
    /\ tokens[2].kind = "LeftParen"
    /\ Last(tokens).kind = "RightParen"
    /\ IsArgs(SubSeq(tokens, 3, Len(tokens) - 1))

C9_BareCallEquivalence ==
    /\ (Done /\ IsBareCall(infix)) =>
            result = to_postfix(ParenCall(infix[1].func, Tail(infix)))
    /\ (Done /\ IsParenCall(infix)) =>
            result = to_postfix(BareCall(infix[1].func, SubSeq(infix, 3, Len(infix) - 1)))

C9_Witness ==
    /\ Done /\ IsBareCall(infix)
    /\ \E i \in 2..Len(infix) : infix[i].kind = "ArgSeperator"
    /\ \E i \in 2..Len(infix) : infix[i].kind = "Operator"
    /\ result.kind = "Ok"
    /\ Last(result.out) = OutFunction(infix[1].func)
    /\ result = to_postfix(ParenCall(infix[1].func, Tail(infix)))

(***************************************************************************)
(* C10  Bare call followed by an operator: f a , b o c becomes             *)
(* [a, b, c, o, f] (o before f), unlike f ( a , b ) o c, which becomes     *)
(* [a, b, f, c, o].                                                        *)
(***************************************************************************)
IsBareCallOp(tokens) ==
    Kinds(tokens) = <<"Function", "Value", "ArgSeperator", "Value", "Operator", "Value">>

IsParenCallOp(tokens) ==
    Kinds(tokens) = <<"Function", "LeftParen", "Value", "ArgSeperator", "Value", "RightParen",
                      "Operator", "Value">>

C10_BareCallTrailingOperator ==
    /\ (Done /\ IsBareCallOp(infix)) =>
        /\ result = Ok(<<OutValue(infix[2].value), OutValue(infix[4].value),
                         OutValue(infix[6].value), OutOperator(infix[5].op),
                         OutFunction(infix[1].func)>>)
        /\ result # to_postfix(ParenCallOp(infix[1].func, infix[2].value, infix[4].value,
                                           infix[5].op, infix[6].value))
    /\ (Done /\ IsParenCallOp(infix)) =>
        result = Ok(<<OutValue(infix[3].value), OutValue(infix[5].value),
                      OutFunction(infix[1].func), OutValue(infix[8].value),
                      OutOperator(infix[7].op)>>)

C10_Witness ==
    /\ Done /\ IsBareCallOp(infix)
    /\ infix[2].value # infix[4].value
    /\ result.kind = "Ok"
    /\ result.out[4] = OutOperator(infix[5].op)
    /\ result.out[5] = OutFunction(infix[1].func)

(***************************************************************************)
(* C11  Prefix operator: an Operator u in prefix position followed by a    *)
(* Value v is emitted directly after v: u v becomes [v, u], and a o u v    *)
(* with u right-associative and precedence(u) > precedence(o) becomes      *)
(* [a, v, u, o].                                                           *)
(***************************************************************************)
C11_PrefixOperator ==
    /\ (Done /\ Kinds(infix) = <<"Operator", "Value">>) =>
            result = Ok(<<OutValue(infix[2].value), OutOperator(infix[1].op)>>)
    /\ (Done /\ Kinds(infix) = <<"Value", "Operator", "Operator", "Value">>
            /\ ~is_left_associative(infix[3].op)
            /\ precedence(infix[3].op) > precedence(infix[2].op)) =>
            result = Ok(<<OutValue(infix[1].value), OutValue(infix[4].value),
                          OutOperator(infix[3].op), OutOperator(infix[2].op)>>)

C11_Witness ==
    /\ Done /\ Kinds(infix) = <<"Value", "Operator", "Operator", "Value">>
    /\ ~is_left_associative(infix[3].op) /\ is_left_associative(infix[2].op)
    /\ precedence(infix[3].op) > precedence(infix[2].op)
    /\ result.kind = "Ok"
    /\ result.out[3] = OutOperator(infix[3].op)

(***************************************************************************)
(* Properties of the validated input, stated on the token sequence alone.  *)
(***************************************************************************)
RECURSIVE OpenGroups(_, _)
\* the parentheses left open by the first k tokens, innermost last: "call" for the
\* LeftParen that directly follows a Function, "group" for any other
OpenGroups(toks, k) ==
    IF k = 0 THEN <<>>
    ELSE LET open == OpenGroups(toks, k - 1)
         IN CASE toks[k].kind = "LeftParen" ->
                    Append(open, IF k > 1 /\ toks[k - 1].kind = "Function"
                                 THEN "call" ELSE "group")
              [] toks[k].kind = "RightParen" /\ open # <<>> -> Front(open)
              [] OTHER -> open

\* the position after toks lies directly in the argument list of an open call
DirectlyInCall(toks) ==
    LET open == OpenGroups(toks, Len(toks))
    IN open # <<>> /\ Last(open) = "call"

RECURSIVE Parse(_, _)
\* recognizer of the prefixes of
\*   expr := Value | ( expr ) | Function ( expr (, expr)* ) | expr Operator expr
Parse(toks, k) ==
    IF k = 0 THEN [ok |-> TRUE, open |-> <<>>, expect |-> "operand"]
    ELSE LET q == Parse(toks, k - 1)
             t == toks[k].kind
         IN IF ~q.ok THEN q
            ELSE CASE q.expect = "operand" /\ t = "Value" -> [q EXCEPT !.expect = "operator"]
                   [] q.expect = "operand" /\ t = "LeftParen" ->
                        [q EXCEPT !.open = Append(@, "group")]
                   [] q.expect = "operand" /\ t = "Function" -> [q EXCEPT !.expect = "paren"]
                   [] q.expect = "paren" /\ t = "LeftParen" ->
                        [q EXCEPT !.open = Append(@, "call"), !.expect = "operand"]
                   [] q.expect = "operator" /\ t = "Operator" -> [q EXCEPT !.expect = "operand"]
                   [] q.expect = "operator" /\ t = "RightParen" /\ q.open # <<>> ->
                        [q EXCEPT !.open = Front(@)]
                   [] q.expect = "operator" /\ t = "ArgSeperator" /\ q.open # <<>>
                        /\ Last(q.open) = "call" -> [q EXCEPT !.expect = "operand"]
                   [] OTHER -> [q EXCEPT !.ok = FALSE]

\* toks can be continued to an expression of the grammar
ViablePrefix(toks) == Parse(toks, Len(toks)).ok

\* toks is an expression of the grammar
IsExpression(toks) ==
    LET q == Parse(toks, Len(toks))
    IN q.ok /\ q.expect = "operator" /\ q.open = <<>>

(***************************************************************************)
(* C12  Unmatched closing parenthesis in validate: a RightParen that is    *)
(* read while no LeftParen is open is rejected with InvalidToken at its    *)
(* index; the open-parenthesis count never becomes negative and no         *)
(* per-level counter goes below zero.                                      *)
(***************************************************************************)
C12_UnmatchedRightParenRejected ==
    /\ ctx.paren_count >= 0
    /\ \A i \in 1..Len(ctx.function_local_paren_count) : ctx.function_local_paren_count[i] >= 0
    /\ \A p \in FirstUnmatchedRightParen(in_tokens) :
            verdict.kind = "InvalidToken" /\ verdict.pos = p

(***************************************************************************)
(* C13  ArgSeperator legality: an ArgSeperator that does not sit directly  *)
(* in the argument list of a still open function call (the innermost open  *)
(* parenthesis is not a call's own) is rejected with InvalidToken at its   *)
(* position.                                                               *)
(***************************************************************************)
C13_ArgSeperatorLegality ==
    (in_tokens # <<>> /\ Last(in_tokens).kind = "ArgSeperator"
        /\ ~DirectlyInCall(Front(in_tokens))) =>
        /\ verdict.kind = "InvalidToken"
        /\ verdict.pos = Len(in_tokens) - 1
        /\ verdict.found = InArgSeperator

(***************************************************************************)
(* C14  validate accepts every well-formed expression: no prefix of an     *)
(* expression of the grammar is rejected or makes validate panic, and for  *)
(* a complete expression validate returns Ok(()).                          *)
(***************************************************************************)
C14_AcceptsWellFormed ==
    /\ ViablePrefix(in_tokens) => verdict.kind \notin {"InvalidToken", "Panic", "Abort"}
    /\ (IsExpression(in_tokens) /\ verdict # Running) => verdict = OkUnit

(***************************************************************************)
(* C15  Terminal acceptance: when every token was accepted, validate       *)
(* returns Ok(()) exactly when there are as many LeftParens as             *)
(* RightParens, and ParenMissMatch(LeftParens - RightParens) otherwise.    *)
(***************************************************************************)
ParenBalance(toks) ==
    KindCount(toks, "LeftParen", Len(toks)) - KindCount(toks, "RightParen", Len(toks))

C15_TerminalAcceptance ==
    AtEnd => verdict = IF ParenBalance(in_tokens) = 0
                       THEN OkUnit
                       ELSE ParenMissMatch(ParenBalance(in_tokens))

C15_Witness ==
    /\ in_tokens = <<InLeftParen, InLeftParen, InLeftParen, InValue(1), InRightParen>>
    /\ verdict = ParenMissMatch(2)

(***************************************************************************)
(* C16  Strictness about bare functions: an input with a Function that is  *)
(* not directly followed by a LeftParen is never accepted; the token that  *)
(* follows such a Function is rejected with InvalidToken at its position,  *)
(* expected set {LeftParen}.                                               *)
(***************************************************************************)
C16_BareFunctionRejected ==
    \A i \in 1..Len(in_tokens) :
        (in_tokens[i].kind = "Function"
            /\ (i = Len(in_tokens) \/ in_tokens[i + 1].kind # "LeftParen")) =>
            /\ verdict # OkUnit
            /\ i < Len(in_tokens) =>
                    /\ verdict.kind = "InvalidToken"
                    /\ verdict.pos = i
                    /\ verdict.found = in_tokens[i + 1]
                    /\ Range(verdict.expected) = {"LeftParen"}

(***************************************************************************)
(* C17  Missing operands and stray operators: validate returns Ok(()) only *)
(* when the scan ends in AfterValue; the empty input and every input that  *)
(* starts or ends with an Operator or has an Operator directly before an   *)
(* Operator, RightParen or ArgSeperator are not accepted.                  *)
(***************************************************************************)
StrayOperator(toks) ==
    \E i \in 1..Len(toks) :
        /\ toks[i].kind = "Operator"
        /\ \/ i = 1
           \/ i = Len(toks)
           \/ toks[i + 1].kind \in {"Operator", "RightParen", "ArgSeperator"}

C17_OperandsRequired ==
    verdict = OkUnit =>
        /\ state = "AfterValue"
        /\ in_tokens # <<>>
        /\ ~StrayOperator(in_tokens)

(***************************************************************************)
(* C18  Fail-fast reporting: an InvalidToken error at position p carries   *)
(* the input token at index p, the tokens before p were all accepted, and  *)
(* validate returned at p: no later token is read and the result stays.    *)
(***************************************************************************)
C18_FailFast ==
    /\ [](verdict.kind = "InvalidToken" =>
            /\ verdict.pos = Len(in_tokens) - 1
            /\ verdict.found = in_tokens[verdict.pos + 1]
            /\ \E r \in ValidateLoop(NewRun, Front(in_tokens), 0, debug_assertions) :
                    r.verdict = Running)
    /\ [][verdict.kind = "InvalidToken" => (in_tokens' = in_tokens /\ verdict' = verdict)]_vars

C18_Witness ==
    /\ verdict.kind = "InvalidToken"
    /\ verdict.pos = 3
    /\ Len(in_tokens) = 4
    /\ verdict.found = InValue(2)
    /\ in_tokens[1] = InValue(1)

(***************************************************************************)
(* C19  Expected set of InvalidToken, as claimed: the set holds exactly    *)
(* the kinds acceptable in the state and context of the rejection, so the  *)
(* kind of the rejected token is never a member of it.                     *)
(***************************************************************************)
C19_ExpectedExcludesFound ==
    verdict.kind = "InvalidToken" =>
        /\ Token(verdict.found) \notin Range(verdict.expected)
        /\ (state = "Expression" =>
                Range(verdict.expected) = {"Value", "LeftParen", "Function"})
        /\ (state = "FunctionArgsStart" => Range(verdict.expected) = {"LeftParen"})

(***************************************************************************)
(* C19 (amended)  The expected set is the fixed list of the rejecting      *)
(* state - {Value, LeftParen, Function} in Expression, {LeftParen} in      *)
(* FunctionArgsStart, {Operator, RightParen, ArgSeperator} in AfterValue - *)
(* so the kind of the rejected token is a member of it exactly when an     *)
(* ArgSeperator is rejected in AfterValue.                                 *)
(***************************************************************************)
C19_StaticExpected ==
    verdict.kind = "InvalidToken" =>
        /\ (state = "Expression" =>
                Range(verdict.expected) = {"Value", "LeftParen", "Function"})
        /\ (state = "FunctionArgsStart" => Range(verdict.expected) = {"LeftParen"})
        /\ (state = "AfterValue" =>
                Range(verdict.expected) = {"Operator", "RightParen", "ArgSeperator"})
        /\ (Token(verdict.found) \in Range(verdict.expected)
                <=> (state = "AfterValue" /\ Token(verdict.found) = "ArgSeperator"))

C19_Witness ==
    /\ in_tokens = <<InFunction(1), InLeftParen, InLeftParen, InValue(1), InArgSeperator>>
    /\ state = "AfterValue"
    /\ verdict = InvalidTokenError(InArgSeperator, <<"Operator", "RightParen", "ArgSeperator">>, 4)

(***************************************************************************)
(* Both functions run to completion on one finite input: to_postfix first, *)
(* then validate on the same tokens, each step taken as soon as it can be. *)
(***************************************************************************)
MaxRunLen == 4

RunInputs == SeqsUpTo(ValidateTokens, MaxRunLen) \cup ExampleInputs

InitRun ==
    /\ infix \in RunInputs
    /\ pos = 0
    /\ out_queue = <<>>
    /\ stack = <<>>
    /\ paren_count = 0
    /\ result = Running
    /\ in_tokens = <<>>
    /\ state = "Expression"
    /\ ctx = ValidationContext
    /\ verdict = Running
    /\ debug_assertions \in BOOLEAN

\* the loop body of validate on the next token of infix
ValidateNextToken ==
    /\ Done
    /\ verdict = Running
    /\ Len(in_tokens) < Len(infix)
    /\ \E r \in ValidateToken(run, Len(in_tokens), infix[Len(in_tokens) + 1], debug_assertions) :
            /\ in_tokens' = Append(in_tokens, infix[Len(in_tokens) + 1])
            /\ state' = r.state
            /\ ctx' = r.ctx
            /\ verdict' = r.verdict
    /\ UNCHANGED <<debug_assertions, postfix_vars>>

\* the iterator over infix is exhausted
ValidateEnd ==
    /\ Done
    /\ verdict = Running
    /\ Len(in_tokens) = Len(infix)
    /\ verdict' = EndOfInput(ctx)
    /\ UNCHANGED <<in_tokens, state, ctx, debug_assertions, postfix_vars>>

NextRun ==
    \/ StepValue
    \/ StepLeftParen
    \/ StepRightParenUnmatched
    \/ StepRightParen
    \/ StepFunction
    \/ StepArgSeperator
    \/ StepOperator
    \/ Finish
    \/ ValidateNextToken
    \/ ValidateEnd

SpecRun == InitRun /\ [][NextRun]_vars /\ WF_vars(NextRun)

(***************************************************************************)
(* C21  Termination: on every finite input to_postfix and validate both    *)
(* come to an end; every step of to_postfix leaves a prefix of the pending *)
(* stack plus at most the one entry its token pushes, so the entries       *)
(* popped so far never outnumber the entries pushed so far, and those      *)
(* never outnumber the tokens read.                                        *)
(***************************************************************************)
\* the entries pushed while reading the first k tokens: one per LeftParen, Function, Operator
Pushes(tokens, k) ==
    KindCount(tokens, "LeftParen", k) + KindCount(tokens, "Function", k)
        + KindCount(tokens, "Operator", k)

\* the entry the token at position p pushes, if any
Pushed(tk, p) ==
    CASE tk.kind = "LeftParen" -> <<StackLeftParen(p)>>
      [] tk.kind = "Function" -> <<StackFunction(tk.func)>>
      [] tk.kind = "Operator" -> <<StackOperator(tk.op)>>
      [] OTHER -> <<>>

\* the entries popped so far: those pushed and no longer pending
Pops == Pushes(infix, pos) - Len(stack)

C21_Termination ==
    /\ <>(Done /\ verdict # Running)
    /\ [][pos' = pos + 1 =>
            \E k \in 0..Len(stack) : stack' = SubSeq(stack, 1, k) \o Pushed(token, pos)]_vars
    /\ [][(result = Running /\ result' # Running) => pos' = pos]_vars
    /\ [](result = Running =>
            /\ 0 <= Pops
            /\ Pops <= Pushes(infix, pos)
            /\ Pushes(infix, pos) <= pos
            /\ pos <= Len(infix))

C21_Witness ==
    /\ result.kind = "Ok"
    /\ verdict.kind = "Ok"
    /\ infix \in ExampleInputs
    /\ Len(in_tokens) = Len(infix)

(***************************************************************************)
(* C22  RightParen step of to_postfix: when a RightParen is read with a    *)
(* non-zero open-parenthesis counter, the entry on top of the pending      *)
(* stack once the operators are flushed - the one popped and discarded -   *)
(* is a left-paren marker; every Function read so far is still pending or  *)
(* has been emitted; and the counter equals the number of left-paren       *)
(* markers on the pending stack.                                           *)
(***************************************************************************)
StackKindCount(stk, kind) == Cardinality({i \in 1..Len(stk) : stk[i].kind = kind})

C22_RightParenStep ==
    result = Running =>
        /\ paren_count = StackKindCount(stack, "LeftParen")
        /\ KindCount(infix, "Function", pos)
                = StackKindCount(stack, "Function") + StackKindCount(out_queue, "Function")
        /\ (InLoop /\ token.kind = "RightParen" /\ paren_count # 0) =>
                LET flushed == PopOperators(stack, out_queue)
                IN /\ flushed.stack # <<>>
                   /\ Last(flushed.stack).kind = "LeftParen"

(***************************************************************************)
(* C23  ArgSeperator step of to_postfix: the step removes from the pending *)
(* stack exactly the Operator entries above the topmost non-operator entry *)
(* and appends them to the output top first; the entries below, with every *)
(* left-paren marker and Function, keep their places, the open-parenthesis *)
(* counter keeps its value, nothing is pushed and the conversion goes on.  *)
(***************************************************************************)
\* the entries of stk from the top down to, not including, index k, as output operators
EmittedAbove(stk, k) ==
    [j \in 1..(Len(stk) - k) |-> OutOperator(stk[Len(stk) + 1 - j].op)]

C23_ArgSeperatorStep ==
    [][(InLoop /\ token.kind = "ArgSeperator" /\ pos' # pos) =>
            /\ \E k \in 0..Len(stack) :
                    /\ \A i \in (k + 1)..Len(stack) : stack[i].kind = "Operator"
                    /\ k > 0 => stack[k].kind # "Operator"
                    /\ stack' = SubSeq(stack, 1, k)
                    /\ out_queue' = out_queue \o EmittedAbove(stack, k)
            /\ paren_count' = paren_count
            /\ result' = Running
            /\ pos' = pos + 1]_vars

\* `( o1 o2 ,` with o2 binding tighter: both operators are flushed, o2 first
C23_Witness ==
    /\ pos = 4
    /\ infix[4].kind = "ArgSeperator"
    /\ result = Running
    /\ stack = <<StackLeftParen(0)>>
    /\ paren_count = 1
    /\ Len(out_queue) = 2
    /\ out_queue[1].kind = "Operator" /\ out_queue[2].kind = "Operator"
    /\ out_queue[1] = OutOperator(infix[3].op)
    /\ out_queue[2] = OutOperator(infix[2].op)
    /\ out_queue[1] # out_queue[2]

(***************************************************************************)
(* C24  Validator bookkeeping safety: whenever validate hands a token to   *)
(* a state whose arm calls left_paren, right_paren or allow_end_of_fn_arg, *)
(* the stack of per-function-level parenthesis counters is not empty, so   *)
(* the assertion `len() >= 1` holds and no unchecked unwrap meets an empty *)
(* stack - also after a parenthesized group outside any call was closed.   *)
(***************************************************************************)
\* the arms that read or update the top counter
ReadsTopCounter(s, tk) ==
    \/ s = "Expression" /\ tk = "LeftParen"
    \/ s = "AfterValue" /\ tk \in {"RightParen", "ArgSeperator"}

C24_CounterStackNonEmpty ==
    [][(verdict = Running /\ in_tokens' # in_tokens
            /\ ReadsTopCounter(state, Token(Last(in_tokens')))) =>
        Len(ctx.function_local_paren_count) >= 1]_vars

(***************************************************************************)
(* C25  Validator acceptance implies conversion success: whenever validate *)
(* returns Ok(()) for a token sequence, to_postfix returns Ok for the same *)
(* sequence, also when a RightParen comes before any LeftParen.            *)
(***************************************************************************)
C25_AcceptedConverts ==
    verdict = OkUnit => to_postfix(in_tokens).kind = "Ok"

(***************************************************************************)
(* C26  Value order preservation in to_postfix: reading a Value appends it *)
(* to the output at once, the output only ever grows at its end, and so    *)
(* the values in the output queue are at every moment the values of the    *)
(* tokens read so far, in input order; a returned output holds the values  *)
(* of the whole input in input order.                                      *)
(***************************************************************************)
IsValue(t) == t.kind = "Value"

\* the values carried by the Value tokens of s, in order
ValuesOf(s) ==
    LET vs == SelectSeq(s, IsValue)
    IN [i \in 1..Len(vs) |-> vs[i].value]

IsPrefix(s, t) == Len(s) <= Len(t) /\ s = SubSeq(t, 1, Len(s))

C26_ValueOrder ==
    /\ [](ValuesOf(out_queue) = ValuesOf(SubSeq(infix, 1, pos)))
    /\ [](result.kind = "Ok" => ValuesOf(result.out) = ValuesOf(infix))
    /\ [][IsPrefix(out_queue, out_queue')]_vars
    /\ [][(InLoop /\ token.kind = "Value") =>
            out_queue' = Append(out_queue, OutValue(token.value))]_vars

\* `2 o 1 ...`: the operator is emitted after both values, which keep their order
C26_Witness ==
    /\ result.kind = "Ok"
    /\ Len(infix) >= 3
    /\ infix[1] = InValue(2) /\ infix[2].kind = "Operator" /\ infix[3] = InValue(1)
    /\ ValuesOf(result.out) = <<2, 1>>
    /\ result.out[1] = OutValue(2) /\ result.out[2] = OutValue(1)

====
